---- MODULE Spec2Model ----
(***************************************************************************)
(* Line geometry helpers of line_helpers.py: Bresenham rasterisation of a  *)
(* segment, segment-to-line conversion, homogeneous line intersection,     *)
(* segment/line and beam intersection tests, and the draw adapter.         *)
(*                                                                         *)
(* Numbers.  Endpoints and line coefficients are small integers, so every  *)
(* int -> float conversion (astype(float)) and every product/difference is *)
(* exact.  A float quotient is kept as an extended rational <<n, d>>:      *)
(* d > 0 and gcd(n, d) = 1 for a finite value, <<1, 0>> for an infinity    *)
(* (either sign), <<0, 0>> for NaN.                                        *)
(***************************************************************************)
EXTENDS Integers, Sequences, FiniteSets, TLC

VARIABLES fr,      \* locals of the running points_on_segment call, with its pc
          call,    \* the geometry function last called, with its arguments
          ret,     \* what that call returned or raised
          canvas   \* the cv2.line calls issued by that call, in order

vars == <<fr, call, ret, canvas>>

\* ------------------------------------------------------------------ bounds
MaxPix == 3        \* rasterised endpoints lie in -1..MaxPix

MaxCoord == 2      \* segment endpoints of the geometry calls lie in 0..MaxCoord
MaxCoef == 2       \* line coefficients lie in -MaxCoef..MaxCoef
MaxBeamCoord == 1  \* endpoints of the segments tested against a beam
MaxBeamCoef == 1   \* coefficients of the two lines of a beam
MaxCols == 3       \* image widths lie in 1..MaxCols
MaxScale == 3      \* scalars k lie in -MaxScale..MaxScale, k # 0

Pix == -1..MaxPix
RasterSegments == Pix \X Pix \X Pix \X Pix

SegmentsIn(m) == (0..m) \X (0..m) \X (0..m) \X (0..m)
\* homogeneous lines keep (a, b) # (0, 0)
LinesIn(m) == {l \in (-m..m) \X (-m..m) \X (-m..m) : l[1] # 0 \/ l[2] # 0}

Segments == SegmentsIn(MaxCoord)
Lines == LinesIn(MaxCoef)
BeamSegments == SegmentsIn(MaxBeamCoord)
BeamLines == LinesIn(MaxBeamCoef)
Cols == 1..MaxCols
Scalars == (-MaxScale..MaxScale) \ {0}

\* ----------------------------------------------------------------- helpers
Abs(v) == IF v < 0 THEN -v ELSE v

Max(a, b) == IF a >= b THEN a ELSE b

\* int(v) of the float n/d (d # 0): truncation toward zero
IntOf(n, d) ==
    LET q == Abs(n) \div Abs(d)
    IN  IF (n < 0) = (d < 0) THEN q ELSE -q

Reverse(s) == [i \in 1..Len(s) |-> s[Len(s) + 1 - i]]

\* ------------------------------------------------------- points_on_segment
\* lines 29-32: unpack the endpoints, first dx, dy
Entry(segment) ==
    [seg |-> segment, pc |-> "steep",
     x1 |-> segment[1], y1 |-> segment[2],
     x2 |-> segment[3], y2 |-> segment[4],
     dx |-> segment[3] - segment[1], dy |-> segment[4] - segment[2],
     steep |-> FALSE, swap |-> FALSE,
     error |-> 0, ystep |-> 0, x |-> 0, y |-> 0, points |-> <<>>]

\* lines 35-40: steepness test and rotation
Rotate(l) ==
    LET st == Abs(l.dy) > Abs(l.dx)
    IN  IF st
        THEN [l EXCEPT !.steep = TRUE, !.x1 = l.y1, !.y1 = l.x1,
                       !.x2 = l.y2, !.y2 = l.x2, !.pc = "swap"]
        ELSE [l EXCEPT !.steep = FALSE, !.pc = "swap"]

\* slip: the endpoints are exchanged but the exchange is not remembered
SwapEnds_NoFlag(l) ==
    IF l.x1 > l.x2
    THEN [l EXCEPT !.x1 = l.x2, !.x2 = l.x1, !.y1 = l.y2, !.y2 = l.y1,
                   !.swap = FALSE, !.pc = "prepare"]
    ELSE [l EXCEPT !.swap = FALSE, !.pc = "prepare"]

\* lines 43-47: left-to-right normalisation
SwapEnds(l) ==
    IF l.x1 > l.x2
    THEN [l EXCEPT !.x1 = l.x2, !.x2 = l.x1, !.y1 = l.y2, !.y2 = l.y1,
                   !.swap = TRUE, !.pc = "prepare"]
    ELSE [l EXCEPT !.swap = FALSE, !.pc = "prepare"]

\* slip: the threshold starts at dx instead of dx/2
Prepare_FullError(l) ==
    LET ndx == l.x2 - l.x1
        ndy == l.y2 - l.y1
    IN  [l EXCEPT !.dx = ndx, !.dy = ndy,
                  !.error = ndx,
                  !.ystep = IF l.y1 < l.y2 THEN 1 ELSE -1,
                  !.y = l.y1, !.x = l.x1, !.points = <<>>,
                  !.pc = IF l.x1 <= l.x2 THEN "loop" ELSE "reverse"]

\* lines 50-59: new dx, dy, the error threshold, ystep, loop start
Prepare(l) ==
    LET ndx == l.x2 - l.x1
        ndy == l.y2 - l.y1
    IN  [l EXCEPT !.dx = ndx, !.dy = ndy,
                  !.error = IntOf(ndx, 2),
                  !.ystep = IF l.y1 < l.y2 THEN 1 ELSE -1,
                  !.y = l.y1, !.x = l.x1, !.points = <<>>,
                  !.pc = IF l.x1 <= l.x2 THEN "loop" ELSE "reverse"]

\* slip: y is advanced but dx is not added back to the error
Body_NoRestore(l) ==
    LET coord == IF l.steep THEN <<l.y, l.x>> ELSE <<l.x, l.y>>
        e     == l.error - Abs(l.dy)
        nx    == l.x + 1
    IN  [l EXCEPT !.points = Append(l.points, coord),
                  !.error = e,
                  !.y = IF e < 0 THEN l.y + l.ystep ELSE l.y,
                  !.x = nx,
                  !.pc = IF nx <= l.x2 THEN "loop" ELSE "reverse"]

\* lines 60-66: one iteration of the for loop (x is the range's next value)
Body(l) ==
    LET coord == IF l.steep THEN <<l.y, l.x>> ELSE <<l.x, l.y>>
        e     == l.error - Abs(l.dy)
        nx    == l.x + 1
    IN  [l EXCEPT !.points = Append(l.points, coord),
                  !.error = IF e < 0 THEN e + l.dx ELSE e,
                  !.y = IF e < 0 THEN l.y + l.ystep ELSE l.y,
                  !.x = nx,
                  !.pc = IF nx <= l.x2 THEN "loop" ELSE "reverse"]

\* lines 69-71: reverse when swapped, return
Finish(l) ==
    [l EXCEPT !.points = IF l.swap THEN Reverse(l.points) ELSE l.points,
              !.pc = "done"]

RECURSIVE RunLoop(_)
RunLoop(l) == IF l.pc = "loop" THEN RunLoop(Body(l)) ELSE l

points_on_segment(segment) ==
    Finish(RunLoop(Prepare(SwapEnds(Rotate(Entry(segment)))))).points

\* ------------------------------------------------------------ float values
RECURSIVE GCD(_, _)
GCD(a, b) == IF b = 0 THEN a ELSE GCD(b, a % b)

NaN == <<0, 0>>
Inf == <<1, 0>>
IsFinite(q) == q[2] # 0

\* the float n / w of numpy: a finite quotient, an infinity for a nonzero
\* numerator over zero, NaN for 0/0 (a RuntimeWarning, no exception)
Quot(n, w) ==
    IF w = 0
    THEN IF n = 0 THEN NaN ELSE Inf
    ELSE LET g == GCD(Abs(n), Abs(w))
             sg == IF w < 0 THEN -1 ELSE 1
         IN  <<(sg * n) \div g, (sg * w) \div g>>

\* the chained comparison lo <= q <= hi with integers lo, hi: false for NaN,
\* and false for an infinity of either sign
Between(lo, q, hi) ==
    IF q[2] = 0 THEN FALSE
    ELSE lo * q[2] <= q[1] /\ q[1] <= hi * q[2]

None == <<>>

\* constants, lines 5-6
LINE_FINITE == 0
LINE_INFINITE == 1

\* slip: the two products of the constant term are exchanged
segment2line_SignSlip(segment) ==
    LET x0 == segment[1]
        y0 == segment[2]
        x1 == segment[3]
        y1 == segment[4]
    IN  <<y0 - y1, x1 - x0, x1 * y0 - y1 * x0>>

\* -------------------------------------------------------- __segment2line
segment2line(segment) ==
    LET x0 == segment[1]
        y0 == segment[2]
        x1 == segment[3]
        y1 == segment[4]
    IN  <<y0 - y1, x1 - x0, y1 * x0 - x1 * y0>>

\* np.cross of two 3-vectors
Cross(u, v) ==
    <<u[2] * v[3] - u[3] * v[2],
      u[3] * v[1] - u[1] * v[3],
      u[1] * v[2] - u[2] * v[1]>>

\* slip: the homogeneous point is returned without the division by W
intersect_lines_NoDivide(line1, line2) ==
    LET homogeneous == Cross(line1, line2)
    IN  <<Quot(homogeneous[1], 1), Quot(homogeneous[2], 1)>>

\* ------------------------------------------------------- intersect_lines
intersect_lines(line1, line2) ==
    LET homogeneous == Cross(line1, line2)
    IN  <<Quot(homogeneous[1], homogeneous[3]),
          Quot(homogeneous[2], homogeneous[3])>>

\* slip: only the left-to-right, bottom-to-top comparison is made
intersect_segment_line_OneWay(segment, line) ==
    LET x0 == segment[1]
        y0 == segment[2]
        x1 == segment[3]
        y1 == segment[4]
        p  == intersect_lines(segment2line(segment), line)
    IN  IF Between(x0, p[1], x1) /\ Between(y0, p[2], y1)
        THEN <<TRUE, p>>
        ELSE <<FALSE, None>>

\* ------------------------------------------------ intersect_segment_line
intersect_segment_line(segment, line) ==
    LET x0 == segment[1]
        y0 == segment[2]
        x1 == segment[3]
        y1 == segment[4]
        p  == intersect_lines(segment2line(segment), line)
        x  == p[1]
        y  == p[2]
    IN  IF /\ (Between(x0, x, x1) \/ Between(x1, x, x0))
           /\ (Between(y0, y, y1) \/ Between(y1, y, y0))
        THEN <<TRUE, p>>
        ELSE <<FALSE, None>>

\* slip: both lines are required
intersects_beam_And(segment, line1, line2) ==
    LET intersects1 == intersect_segment_line(segment, line1)[1]
        intersects2 == intersect_segment_line(segment, line2)[1]
    IN  IF intersects1 /\ intersects2 THEN TRUE ELSE FALSE

\* -------------------------------------------------------- intersects_beam
intersects_beam(segment, line1, line2) ==
    LET intersects1 == intersect_segment_line(segment, line1)[1]
        intersects2 == intersect_segment_line(segment, line2)[1]
    IN  IF intersects1 \/ intersects2 THEN TRUE ELSE FALSE

\* -------------------------------------------------------------- draw_line
Returned(v, d) == [raised |-> FALSE, exc |-> "", val |-> v, draws |-> d]
Raised(e) == [raised |-> TRUE, exc |-> e, val |-> None, draws |-> <<>>]

\* cols is img.shape[1]; numpy tells whether line holds numpy floats (whose
\* division by zero yields inf/nan) or Python numbers (whose division raises)
draw_line(cols, line, line_type, numpy) ==
    IF line_type = LINE_FINITE
    THEN Returned(None, << <<<<IntOf(line[1], 1), IntOf(line[2], 1)>>,
                             <<IntOf(line[3], 1), IntOf(line[4], 1)>>>> >>)
    ELSE IF line_type = LINE_INFINITE
    THEN IF line[2] = 0
         THEN IF ~numpy THEN Raised("ZeroDivisionError")
              ELSE IF line[3] = 0 THEN Raised("ValueError")
              ELSE Raised("OverflowError")
         ELSE LET y0 == IntOf(-line[3], line[2])
                  y1 == IntOf(-(line[3] + line[1] * cols), line[2])
              IN  Returned(None, << <<<<0, y0>>, <<cols, y1>>>> >>)
    ELSE Returned(None, <<>>)

\* ------------------------------------------------- geometry specification
\* A pending call: the function name, its arguments, and whether it has run.
NoArgs == [op |-> "none", pc |-> "returned", segment |-> <<>>,
           line1 |-> <<>>, line2 |-> <<>>,
           cols |-> 0, line_type |-> 0, numpy |-> FALSE]

Pending(o) == [NoArgs EXCEPT !.op = o, !.pc = "called"]

\* the calls a client can make, by function
InitCall ==
    \/ \E s \in Segments :
         call = [Pending("segment2line") EXCEPT !.segment = s]
    \/ \E l1 \in Lines, l2 \in Lines :
         call = [Pending("intersect_lines") EXCEPT !.line1 = l1, !.line2 = l2]
    \/ \E s \in Segments, l \in Lines :
         call = [Pending("intersect_segment_line") EXCEPT !.segment = s,
                                                          !.line1 = l]
    \/ \E s \in BeamSegments, l1 \in BeamLines, l2 \in BeamLines :
         call = [Pending("intersects_beam") EXCEPT !.segment = s,
                                                   !.line1 = l1, !.line2 = l2]
    \/ \E s \in Segments :
         call = [Pending("draw_line") EXCEPT !.segment = s,
                                             !.line_type = LINE_FINITE]
    \/ \E l \in Lines, c \in Cols, np \in BOOLEAN :
         call = [Pending("draw_line") EXCEPT !.line1 = l, !.cols = c,
                                             !.numpy = np,
                                             !.line_type = LINE_INFINITE]

InitGeom ==
    /\ fr = [pc |-> "idle"]
    /\ InitCall
    /\ ret = Returned(None, <<>>)
    /\ canvas = <<>>

Called(o) == call.op = o /\ call.pc = "called"
Done(o) == call.op = o /\ call.pc = "returned"

Call_segment2line ==
    /\ Called("segment2line")
    /\ call' = [call EXCEPT !.pc = "returned"]
    /\ ret' = Returned(segment2line(call.segment), <<>>)
    /\ UNCHANGED <<fr, canvas>>

Call_intersect_lines ==
    /\ Called("intersect_lines")
    /\ call' = [call EXCEPT !.pc = "returned"]
    /\ ret' = Returned(intersect_lines(call.line1, call.line2), <<>>)
    /\ UNCHANGED <<fr, canvas>>

Call_intersect_segment_line ==
    /\ Called("intersect_segment_line")
    /\ call' = [call EXCEPT !.pc = "returned"]
    /\ ret' = Returned(intersect_segment_line(call.segment, call.line1), <<>>)
    /\ UNCHANGED <<fr, canvas>>

Call_intersects_beam ==
    /\ Called("intersects_beam")
    /\ call' = [call EXCEPT !.pc = "returned"]
    /\ ret' = Returned(intersects_beam(call.segment, call.line1, call.line2),
                       <<>>)
    /\ UNCHANGED <<fr, canvas>>

Call_draw_line ==
    /\ Called("draw_line")
    /\ call' = [call EXCEPT !.pc = "returned"]
    /\ ret' = draw_line(call.cols,
                        IF call.line_type = LINE_FINITE THEN call.segment
                                                        ELSE call.line1,
                        call.line_type, call.numpy)
    /\ canvas' = canvas \o ret'.draws
    /\ UNCHANGED fr

NextGeom ==
    \/ Call_segment2line
    \/ Call_intersect_lines
    \/ Call_intersect_segment_line
    \/ Call_intersects_beam
    \/ Call_draw_line

SpecGeom == InitGeom /\ [][NextGeom]_vars

\* --------------------------------------------------- raster specification
InitRaster ==
    /\ fr \in {Entry(s) : s \in RasterSegments}
    /\ call = NoArgs
    /\ ret = <<>>
    /\ canvas = <<>>

StepRotate ==
    /\ fr.pc = "steep"
    /\ fr' = Rotate(fr)
    /\ UNCHANGED <<call, ret, canvas>>

StepSwap ==
    /\ fr.pc = "swap"
    /\ fr' = SwapEnds(fr)
    /\ UNCHANGED <<call, ret, canvas>>

StepPrepare ==
    /\ fr.pc = "prepare"
    /\ fr' = Prepare(fr)
    /\ UNCHANGED <<call, ret, canvas>>

StepLoop ==
    /\ fr.pc = "loop"
    /\ fr' = Body(fr)
    /\ UNCHANGED <<call, ret, canvas>>

StepReturn ==
    /\ fr.pc = "reverse"
    /\ fr' = Finish(fr)
    /\ UNCHANGED <<call, ret, canvas>>

NextRaster == StepRotate \/ StepSwap \/ StepPrepare \/ StepLoop \/ StepReturn

SpecRaster == InitRaster /\ [][NextRaster]_vars

\* the interpreter runs a started call to its return
FairRaster == SpecRaster /\ WF_vars(NextRaster)

\* ------------------------------------------------------------ raster claims
Near(p, q) == Abs(p[1] - q[1]) <= 1 /\ Abs(p[2] - q[2]) <= 1

\* C1: a returned rasterisation has max(|x1-x0|,|y1-y0|)+1 points, starts at
\* (x0,y0), ends at (x1,y1), and consecutive points differ by at most 1 in
\* each coordinate.
C1_Completeness ==
    fr.pc = "done" =>
        LET p == fr.points
            s == fr.seg
        IN  /\ Len(p) = Max(Abs(s[3] - s[1]), Abs(s[4] - s[2])) + 1
            /\ p[1] = <<s[1], s[2]>>
            /\ p[Len(p)] = <<s[3], s[4]>>
            /\ \A i \in 1..(Len(p) - 1) : Near(p[i], p[i + 1])

\* a steep, swapped segment with both coordinates moving has been rasterised
C1_Witness ==
    /\ fr.pc = "done"
    /\ fr.steep /\ fr.swap
    /\ fr.seg[1] # fr.seg[3]
    /\ Len(fr.points) >= 4

\* C2: rasterising the segment with its endpoints exchanged gives exactly the
\* reverse of the returned sequence.
C2_Symmetry ==
    fr.pc = "done" =>
        points_on_segment(<<fr.seg[3], fr.seg[4], fr.seg[1], fr.seg[2]>>)
            = Reverse(fr.points)

\* a shallow diagonal-ish segment whose two directions take different branches
C2_Witness ==
    /\ fr.pc = "done"
    /\ ~fr.steep
    /\ Abs(fr.seg[3] - fr.seg[1]) >= 3
    /\ fr.seg[2] # fr.seg[4]
    /\ Abs(fr.seg[4] - fr.seg[2]) < Abs(fr.seg[3] - fr.seg[1])

C10_Inv ==
    /\ fr.pc \in {"loop", "reverse", "done"} =>
          /\ Abs(fr.dy) <= fr.dx
          /\ fr.error >= 0
          /\ fr.error < Max(fr.dx, 1)
          /\ Abs(fr.y - fr.y1) <= Len(fr.points)
    /\ fr.pc = "loop" => Len(fr.points) = fr.x - fr.x1 /\ Len(fr.points) <= fr.dx
    /\ fr.pc \in {"reverse", "done"} => Len(fr.points) = fr.dx + 1

C10_Step ==
    fr.pc = "loop" =>
        /\ fr'.y = fr.y \/ fr'.y = fr.y + fr.ystep
        /\ Len(fr'.points) = Len(fr.points) + 1
        /\ fr'.error >= 0

\* C10: after rotation and swap |dy| <= dx; at the start of every iteration
\* 0 <= error < max(dx,1); each iteration moves y by at most one ystep and
\* leaves error non-negative; the loop runs exactly dx+1 times and the call
\* returns.
C10_LoopInvariant ==
    /\ []C10_Inv
    /\ [][C10_Step]_vars
    /\ <>(fr.pc = "done")

\* inside the loop, after at least one correction of y
C10_Witness ==
    /\ fr.pc = "loop"
    /\ Len(fr.points) >= 2
    /\ fr.y # fr.y1
    /\ fr.error > 0

\* ---------------------------------------------------------- geometry claims
\* value of a x + b y + c at an integer point
Eval(line, x, y) == line[1] * x + line[2] * y + line[3]

\* the rational point p = <<<<nx, dx>>, <<ny, dy>>>> satisfies a x + b y + c = 0
OnLine(line, p) ==
    line[1] * p[1][1] * p[2][2] + line[2] * p[2][1] * p[1][2]
        + line[3] * p[1][2] * p[2][2] = 0

\* p is collinear with the two endpoints of the segment
OnSupport(segment, p) ==
    (p[1][1] - segment[1] * p[1][2]) * (segment[4] - segment[2]) * p[2][2]
        = (p[2][1] - segment[2] * p[2][2]) * (segment[3] - segment[1]) * p[1][2]

Min(a, b) == IF a <= b THEN a ELSE b

InBox(segment, p) ==
    /\ Min(segment[1], segment[3]) * p[1][2] <= p[1][1]
    /\ p[1][1] <= Max(segment[1], segment[3]) * p[1][2]
    /\ Min(segment[2], segment[4]) * p[2][2] <= p[2][1]
    /\ p[2][1] <= Max(segment[2], segment[4]) * p[2][2]

\* the line meets the segment's supporting line in one point, and that point
\* is on the closed segment: the line separates the endpoints or touches one
Crosses(segment, line) ==
    LET f0 == Eval(line, segment[1], segment[2])
        f1 == Eval(line, segment[3], segment[4])
    IN  f0 # f1 /\ f0 * f1 <= 0

Swapped(segment) == <<segment[3], segment[4], segment[1], segment[2]>>

\* C3: intersect_segment_line returns (TRUE, p), p the common point of the
\* supporting line and the line, exactly when that point is in the closed
\* bounding box of the endpoints, and (FALSE, None) otherwise; swapping the
\* endpoints does not change the outcome.
C3_SegmentLine ==
    Done("intersect_segment_line") =>
        LET s == call.segment
            l == call.line1
            r == ret.val
        IN  /\ ~ret.raised
            /\ r[1] = Crosses(s, l)
            /\ r[1] => /\ IsFinite(r[2][1]) /\ IsFinite(r[2][2])
                       /\ OnLine(l, r[2])
                       /\ OnSupport(s, r[2])
                       /\ InBox(s, r[2])
            /\ ~r[1] => r[2] = None
            /\ intersect_segment_line(Swapped(s), l) = r

\* a hit exactly on an endpoint of a segment given right-to-left
C3_Witness ==
    /\ Done("intersect_segment_line")
    /\ ret.val[1]
    /\ call.segment[1] > call.segment[3]
    /\ Eval(call.line1, call.segment[1], call.segment[2]) = 0

\* C4 as stated: with W = 0 intersect_lines reports "no intersection".
C4_ParallelNoIntersection ==
    (Done("intersect_lines") /\ Cross(call.line1, call.line2)[3] = 0)
        => ret.val = None

\* C5 as stated: a zero-length segment is rejected with
\* DegenerateSegmentError and no zero vector is returned.
C5_DegenerateRejected ==
    (/\ Done("segment2line")
     /\ call.segment[1] = call.segment[3]
     /\ call.segment[2] = call.segment[4])
        => /\ ret.raised
           /\ ret.exc = "DegenerateSegmentError"
           /\ ret.val # <<0, 0, 0>>

\* C6: intersects_beam is TRUE exactly when one of the two segment/line
\* tests reports an intersection; it is TRUE when the segment crosses one
\* line and misses the other.
C6_BeamOr ==
    Done("intersects_beam") =>
        LET s == call.segment
        IN  /\ ret.val = (\/ intersect_segment_line(s, call.line1)[1]
                          \/ intersect_segment_line(s, call.line2)[1])
            /\ (Crosses(s, call.line1) /\ ~Crosses(s, call.line2)) => ret.val
            /\ (~Crosses(s, call.line1) /\ Crosses(s, call.line2)) => ret.val

\* the segment crosses the second line only
C6_Witness ==
    /\ Done("intersects_beam")
    /\ ret.val
    /\ ~Crosses(call.segment, call.line1)
    /\ Crosses(call.segment, call.line2)

ScaleLine(k, line) == <<k * line[1], k * line[2], k * line[3]>>

\* C7: for non-parallel lines and every nonzero k, intersecting k*L1 with L2
\* gives the point that intersecting L1 with L2 gave.
C7_ScaleInvariance ==
    (Done("intersect_lines") /\ Cross(call.line1, call.line2)[3] # 0) =>
        \A k \in Scalars :
            intersect_lines(ScaleLine(k, call.line1), call.line2) = ret.val

\* a proper intersection with non-integer coordinates
C7_Witness ==
    /\ Done("intersect_lines")
    /\ Cross(call.line1, call.line2)[3] # 0
    /\ IsFinite(ret.val[1])
    /\ ret.val[1][2] > 1
    /\ ret.val[2][1] < 0

\* C8 as stated: an INFINITE line with b = 0 fails with
\* UnrenderableLineError and draws nothing.
C8_UnrenderableRejected ==
    (/\ Done("draw_line")
     /\ call.line_type = LINE_INFINITE
     /\ call.line1[2] = 0)
        => /\ ret.raised
           /\ ret.exc = "UnrenderableLineError"
           /\ canvas = <<>>

\* C9: for distinct endpoints the converter returns
\* (y0-y1, x1-x0, y1*x0-x1*y0), a line through both endpoints with
\* (a, b) # (0, 0).
C9_SegmentToLine ==
    (/\ Done("segment2line")
     /\ <<call.segment[1], call.segment[2]>>
            # <<call.segment[3], call.segment[4]>>) =>
        LET x0 == call.segment[1]
            y0 == call.segment[2]
            x1 == call.segment[3]
            y1 == call.segment[4]
            l  == ret.val
        IN  /\ ~ret.raised
            /\ l = <<y0 - y1, x1 - x0, y1 * x0 - x1 * y0>>
            /\ Eval(l, x0, y0) = 0
            /\ Eval(l, x1, y1) = 0
            /\ <<l[1], l[2]>> # <<0, 0>>

\* an oblique segment off the origin, so that all of a, b, c are nonzero
C9_Witness ==
    /\ Done("segment2line")
    /\ ret.val[1] # 0 /\ ret.val[2] # 0 /\ ret.val[3] # 0

====
